---- MODULE Spec2Model ----
(***************************************************************************)
(* A model of tiedye (src/tiedye/__init__.py): the dependency registry of  *)
(* an Application, the provider tables of its Injectors, and               *)
(* Injector.bind as the recursive procedure it is, one stack frame per     *)
(* activation of bind.                                                     *)
(*                                                                         *)
(* Callables are records [k, name, n]:                                     *)
(*   k = "fn"      a plain function called name                            *)
(*   k = "meth"    function name bound to provider-set instance n          *)
(*                 (types.MethodType(provider_impl, provider_set))         *)
(*   k = "lambda"  the "lambda dummy: self" of injector n                  *)
(*   k = "partial" the functools.partial object partials[n]                *)
(* Interfaces and kinds are strings; a value is a record [v, c, i].        *)
(***************************************************************************)
EXTENDS Integers, Sequences, FiniteSets, TLC

\* ------------------------------------------------------------ bounds
MaxInjectors == 2
MaxPartials == 3
MaxClasses == 3
MaxEnums == 3
MaxNames == 2

\* --------------------------------------------------------- the universe
Fn(name) == [k |-> "fn", name |-> name, n |-> 0]
Meth(name, inst) == [k |-> "meth", name |-> name, n |-> inst]
Lambda(i) == [k |-> "lambda", name |-> "self", n |-> i]
Partial(n) == [k |-> "partial", name |-> "partial", n |-> n]
NoCallable == [k |-> "none", name |-> "", n |-> 0]

\* type(interface): IX is a one-off interface (make_interface), E1 and E2 are
\* the members of one interface enumeration (make_interface_enum), whose type
\* TE is; Injector is the class itself, whose type is "type".
InterfaceType(interface) ==
    CASE interface = "IX" -> "TX"
      [] interface \in {"E1", "E2"} -> "TE"
      [] OTHER -> "type"

\* The keyword parameters each function of the universe takes, beside the
\* interface a provider takes as its one positional argument (and the self
\* of a method).
Params(name) ==
    CASE name = "func" -> {"a", "b"}
      [] name = "provA" -> {}
      [] name = "provB" -> {"d"}
      [] name = "provC" -> {"d"}
      [] name = "get_impl1" -> {"inj"}
      [] name = "get_impl2" -> {}
      [] name = "bar" -> {"a"}
      [] name = "baz" -> {"a"}
      [] OTHER -> {}

\* The positional parameters: func and the method bar (beside its self) take
\* none, a provider takes the interface (so does the method baz of Foo).
NPos(name) == IF name \in {"func", "bar"} THEN 0 ELSE 1

EMPTY_DEPS == << >>

\* A mapping with the given pairs <<key, value>> (a Python dict literal).
RECURSIVE Dict(_)
Dict(pairs) ==
    IF pairs = {} THEN << >>
    ELSE LET p == CHOOSE q \in pairs : TRUE
         IN  (p[1] :> p[2]) @@ Dict(pairs \ {p})

\* dict.update: the entries of upd replace those of base.
Update(base, upd) == upd @@ base

\* The declarations the application makes: app.dependencies(target, **mapping).
Declarations ==
    { <<Fn("func"),  Dict({<<"a", "E1">>, <<"b", "E2">>})>>,
      <<Fn("provB"), Dict({<<"d", "IX">>})>>,
      <<Fn("provB"), Dict({<<"d", "Injector">>})>>,
      <<Fn("provC"), Dict({<<"d", "E1">>})>> }

\* The instances of the class Foo, whose method bar(self, a) an application
\* declares, and the declarations it makes for bar.
FooInstances == {1, 2}

MethodDeclarations ==
    { <<Fn("bar"), Dict({<<"a", "E1">>})>>,
      <<Fn("bar"), Dict({<<"a", "IX">>})>> }

\* The targets and mappings of an application that declares the method
\* baz(self, interface, a) of Foo: on the function (Foo.baz.im_func, or the
\* decorator in the class body) and on the method of an instance (foo1.baz).
InstanceDeclarations ==
    { <<Fn("baz"), Dict({<<"a", "E1">>})>>,
      <<Fn("baz"), Dict({<<"a", "IX">>})>>,
      <<Meth("baz", 1), Dict({<<"a", "E1">>})>> }

\* The local_providers of that application: the method baz of the second
\* instance (foo2.baz), and a function.
LPm == Dict({<<"E1", Meth("baz", 2)>>, <<"IX", Fn("provA")>>})

\* The local_providers mappings the application uses.
LPa == Dict({<<"E1", Fn("provA")>>})
LPb == Dict({<<"E1", Fn("provB")>>, <<"IX", Fn("provC")>>,
             <<"Injector", Fn("provA")>>})
LPc == Dict({<<"E1", Fn("provA")>>, <<"TE", Fn("provB")>>})

\* The arguments of make_injector of the application that declares baz.
MethodProviderArgs == { << << >>, LPm >> }

\* ProviderSet instance 1 is of a class with two @ProviderSet.provide
\* methods; provider_set.providers is the set of their functions.
ProviderSetProviders(inst) == {"get_impl1", "get_impl2"}

provider_interfaces(name) ==
    CASE name = "get_impl1" -> {"E1", "IX"}
      [] name = "get_impl2" -> {"E1"}
      [] OTHER -> {}

provider_dependencies(name) ==
    CASE name = "get_impl1" -> Dict({<<"inj", "Injector">>})
      [] OTHER -> << >>

\* The arguments <<provider_sets, local_providers>> of the application's
\* calls of make_injector and of specialize (<< >> for local_providers is a
\* call without it, which does the same as an empty mapping).
MakeInjectorArgs == { << << >>, LPa >>, << << >>, LPb >> }
SpecializeArgs == { << << >>, LPc >>, << <<1>>, << >> >> }

\* The same for an application that gives make_injector provider sets, one
\* or two instances of the class, with and without local_providers, and
\* the declarations it makes itself, one of them for a function that is
\* also a provider of the class.
ProviderSetArgs ==
    { << <<1>>, << >> >>, << <<1>>, LPa >>, << <<2, 1>>, LPc >> }

InjectorDeclarations ==
    { <<Fn("func"), Dict({<<"a", "E1">>, <<"b", "E2">>})>>,
      <<Fn("get_impl1"), Dict({<<"inj", "IX">>})>> }

\* The members of class bodies: functions decorated with
\* ProviderSet.provide (they have the attribute provider_interfaces), a
\* plain method, and an attribute that is no callable.
Annotated == {"get_impl1", "get_impl2", "get_impl3"}
ClassAttribute == [k |-> "attr", name |-> "x", n |-> 0]

\* The bodies of the provider-set classes an application defines, each the
\* set of the values of the class's dict.
ClassBodies ==
    { {Fn("get_impl1")},
      {Fn("get_impl2"), Fn("helper")},
      {Fn("get_impl3"), Fn("get_impl1"), ClassAttribute} }

VARIABLES
    dependency_map,     \* Application.dependency_map: callable -> deps
    providers,          \* providers[i]: Injector i's providers dict
    currently_binding,  \* currently_binding[i]: Injector i's set
    bound_funcs,        \* bound_funcs[i]: Injector i's memo, callable -> partial
    partials,           \* the functools.partial objects made so far
    stack,              \* the activations of bind in flight, innermost last
    call,               \* the top-level call in flight or last completed
    origin,             \* origin[i]: the call that constructed Injector i
    classes,            \* the classes ProviderSetMeta has made, ProviderSet first
    enums,              \* the types make_interface_enum has made
    objects             \* the instances of these types, in order of creation

vars == <<dependency_map, providers, currently_binding, bound_funcs,
          partials, stack, call, origin, classes, enums, objects>>

\* What the module's functions and classes keep beside an application.
libvars == <<classes, enums, objects>>

Injectors == 1..Len(providers)

NoRet == [ok |-> FALSE, c |-> NoCallable, pos |-> << >>, kw |-> << >>]

\* None, the value of a call that returns nothing, and the register
\* function a call of Application.dependencies defines (it closes over the
\* call's mapping, which the record of the call keeps).
PyNone == [k |-> "None", name |-> "None", n |-> 0]
RegisterClosure == [k |-> "register", name |-> "register", n |-> 0]

\* The record of a top-level call: the operation, the injector and callable
\* it is on, its outcome ("running", "ok", "error"), the error raised, the
\* artifact returned, whether bind answered from its memo (line 131), the
\* injector's currently_binding as the call began, and what a call of an
\* artifact returned; of a call of Application.dependencies or of its
\* register, the positional arguments, the mapping and the value returned;
\* of a bind, the calls of providers made during it, each with the number
\* of times it was made.
NoCall == [op |-> "none", inj |-> 0, func |-> NoCallable, out |-> "none",
           err |-> "", art |-> NoCallable, hit |-> FALSE, entry |-> {},
           ret |-> NoRet, args |-> << >>, mapping |-> << >>,
           value |-> PyNone, invoked |-> << >>]

\* ------------------------------------------------------- ProviderSetMeta
\* "callable(member)" and "hasattr(member, 'provider_interfaces')"
IsCallable(member) == member.k \in {"fn", "meth", "lambda", "partial"}
HasProviderInterfaces(member) == member.k = "fn" /\ member.name \in Annotated

\* A metaclass that inherits nothing.
InheritedProvidersNone(cls, bases) == {}

\* "for base_type in bases: ... providers.update(base_type_providers)":
\* base 0 is object, or a class made without the metaclass, which has no
\* attribute providers.
InheritedProviders(cls, bases) ==
    UNION { cls[b].providers : b \in bases \ {0} }

\* "for member in dict.itervalues(): ... providers.add(member)"
OwnProviders(dict) ==
    { member \in dict : IsCallable(member) /\ HasProviderInterfaces(member) }

\* ProviderSetMeta.__new__(self, name, bases, dict): the class made.
ProviderSetMetaNew(cls, bases, dict) ==
    [bases |-> bases, dict |-> dict,
     providers |-> InheritedProviders(cls, bases) \cup OwnProviders(dict)]

\* The providers of class c after a class with these bases is made:
\* __new__ fills a set of its own ("providers = set()"), so the update
\* reaches no base's set.
ProvidersAfter(cls, c, bases, dict) == cls[c].providers

\* ProviderSet itself, made by the metaclass as the module is imported:
\* its base is object, its body holds __init__ and the static method
\* provide, which is no callable.
ProviderSetClass ==
    ProviderSetMetaNew(<< >>, {0},
        {Fn("__init__"), [k |-> "staticmethod", name |-> "provide", n |-> 0]})

\* "class Name(bases): body", for classes deriving from provider-set
\* classes there are, perhaps with object beside them.
DefineClass(bases, dict) ==
    /\ Len(classes) < MaxClasses + 1
    /\ bases \cap (1..Len(classes)) # {}
    /\ classes' = Append(
           [c \in 1..Len(classes) |->
               [classes[c] EXCEPT
                   !.providers = ProvidersAfter(classes, c, bases, dict)]],
           ProviderSetMetaNew(classes, bases, dict))
    /\ UNCHANGED <<dependency_map, providers, currently_binding, bound_funcs,
                   partials, stack, call, origin, enums, objects>>

\* ---------------------------------------------------- make_interface_enum
\* The names given to make_interface_enum(*names).
EnumNames == {"foo", "bar"}
NameLists == UNION { [1..n -> EnumNames] : n \in 0..MaxNames }

\* A setattr that leaves an attribute there is as it is.
SetAttrKeepFirst(attrs, name, inst) == attrs @@ (name :> inst)

\* "setattr(if_type, name, if_inst)"
SetAttr(attrs, name, inst) == (name :> inst) @@ attrs

\* "for name in names: if_inst = if_type(); if_inst.name = name;
\*  setattr(if_type, name, if_inst)", from the k-th name on: heap are the
\* instances there are, attrs the attributes set on the type so far.
RECURSIVE EnumLoop(_, _, _, _, _)
EnumLoop(heap, attrs, if_type, names, k) ==
    IF k > Len(names) THEN [heap |-> heap, attrs |-> attrs]
    ELSE LET if_inst == Len(heap) + 1
         IN  EnumLoop(Append(heap, [type |-> if_type, name |-> names[k]]),
                      SetAttr(attrs, names[k], if_inst),
                      if_type, names, k + 1)

\* make_interface_enum(*names): a new type, with the instances as its
\* attributes.
MakeInterfaceEnum(names) ==
    /\ Len(enums) < MaxEnums
    /\ LET if_type == Len(enums) + 1
           made == EnumLoop(objects, << >>, if_type, names, 1)
       IN  /\ enums' = Append(enums, [names |-> names, attrs |-> made.attrs])
           /\ objects' = made.heap
    /\ UNCHANGED <<dependency_map, providers, currently_binding, bound_funcs,
                   partials, stack, call, origin, classes>>

Init ==
    /\ dependency_map = << >>
    /\ providers = << >>
    /\ currently_binding = << >>
    /\ bound_funcs = << >>
    /\ partials = << >>
    /\ stack = << >>
    /\ call = NoCall
    /\ origin = << >>
    /\ classes = << ProviderSetClass >>
    /\ enums = << >>
    /\ objects = << >>

\* ------------------------------------------------ Application.dependencies
\* register(callable) of Application.dependencies.
Register(map, callable, mapping) == (callable :> mapping) @@ map

\* The application declares before it makes its first injector.
Declare(target, mapping) ==
    /\ stack = << >>
    /\ providers = << >>
    /\ dependency_map' = Register(dependency_map, target, mapping)
    /\ UNCHANGED <<providers, currently_binding, bound_funcs, partials,
                   stack, call, origin, libvars>>

\* The positional arguments and the mappings of the application's calls of
\* Application.dependencies, in its three shapes: dependencies(**mapping),
\* dependencies(target, **mapping), dependencies(target, other, **mapping).
DependenciesTargets == {Fn("func"), Fn("provB"), Fn("provC")}

DependenciesArgs ==
    { << >> } \cup { <<t>> : t \in DependenciesTargets }
              \cup { <<t, u>> : t, u \in DependenciesTargets }

DependenciesMappings == { d[2] : d \in Declarations }

\* A dependencies that registers its first target before it counts them.
DependenciesMapFirst(map, args, mapping) ==
    IF Len(args) >= 1 THEN Register(map, args[1], mapping) ELSE map

\* The registry as a call of Application.dependencies leaves it: only
\* "if len(args) == 1: register(args[0])" writes to it.
DependenciesMap(map, args, mapping) ==
    IF Len(args) = 1 THEN Register(map, args[1], mapping) ELSE map

\* The value the call returns: with one target, nothing ("register(args[0])"
\* is a statement, its value is dropped); with none, register itself.
DependenciesValue(args) ==
    IF Len(args) = 0 THEN RegisterClosure ELSE PyNone

\* app.dependencies(*args, **mapping)
Dependencies(args, mapping) ==
    /\ stack = << >>
    /\ dependency_map' = DependenciesMap(dependency_map, args, mapping)
    /\ call' = [NoCall EXCEPT
                  !.op = "dependencies", !.args = args, !.mapping = mapping,
                  !.out = IF Len(args) \in {0, 1} THEN "ok" ELSE "error",
                  !.err = IF Len(args) \in {0, 1} THEN "" ELSE "TypeError",
                  !.value = DependenciesValue(args)]
    /\ UNCHANGED <<providers, currently_binding, bound_funcs, partials,
                   stack, origin, libvars>>

\* register(callable), the function the last call of dependencies returned
\* (the decorator applied to the function defined under it).
RegisterCall(callable) ==
    /\ stack = << >>
    /\ call.op = "dependencies" /\ call.value = RegisterClosure
    /\ dependency_map' = Register(dependency_map, callable, call.mapping)
    /\ call' = [NoCall EXCEPT
                  !.op = "register", !.func = callable,
                  !.mapping = call.mapping, !.out = "ok", !.value = callable]
    /\ UNCHANGED <<providers, currently_binding, bound_funcs, partials,
                   stack, origin, libvars>>

\* The registry without the entry of key.
WithoutKey(map, key) == [c \in DOMAIN map \ {key} |-> map[c]]

\* dependency_map is a WeakKeyDictionary (line 13): the entry of a key goes
\* with the key.  A function lives as long as its module or class; the
\* method object an attribute access like foo1.baz makes lives as long as
\* the application holds on to it.
Collect(key) ==
    /\ stack = << >>
    /\ key \in DOMAIN dependency_map /\ key.k = "meth"
    /\ dependency_map' = WithoutKey(dependency_map, key)
    /\ UNCHANGED <<providers, currently_binding, bound_funcs, partials,
                   stack, call, origin, libvars>>

\* ------------------------------------------------------ Injector.__init__
\* The orders in which "for provider_impl in provider_set.providers" may
\* visit a set: Python fixes no iteration order for a set of functions.
IterationOrders(S) ==
    { o \in [1..Cardinality(S) -> S] :
        \A x, y \in 1..Cardinality(S) : x # y => o[x] # o[y] }

OrdersFor(provider_sets) ==
    { os \in [1..Len(provider_sets) -> UNION { IterationOrders(ProviderSetProviders(provider_sets[j])) : j \in 1..Len(provider_sets) }] :
        \A j \in 1..Len(provider_sets) :
            os[j] \in IterationOrders(ProviderSetProviders(provider_sets[j])) }

\* An __init__ that puts the raw function into the table.
ProvideAllUnbound(tbl, name, inst) ==
    [ key \in provider_interfaces(name) |-> Fn(name) ] @@ tbl

\* "for interface in provider_impl.provider_interfaces:
\*      providers[interface] = inst_provider_impl"
ProvideAll(tbl, name, inst) ==
    [ key \in provider_interfaces(name) |-> Meth(name, inst) ] @@ tbl

\* The inner loop over one provider set, visiting its functions in order.
RECURSIVE FromProviderSet(_, _, _, _)
FromProviderSet(tbl, inst, order, j) ==
    IF j > Len(order) THEN tbl
    ELSE FromProviderSet(ProvideAll(tbl, order[j], inst), inst, order, j + 1)

\* The outer loop over provider_sets.
RECURSIVE FromProviderSets(_, _, _, _)
FromProviderSets(tbl, provider_sets, orders, j) ==
    IF j > Len(provider_sets) THEN tbl
    ELSE FromProviderSets(
             FromProviderSet(tbl, provider_sets[j], orders[j], 1),
             provider_sets, orders, j + 1)

\* An __init__ that declares nothing.
RegisterProvidersNone(map, names) == map

\* self.app.dependencies(provider_impl, **provider_impl.provider_dependencies)
\* for every function of every given provider set.
RECURSIVE RegisterProviders(_, _)
RegisterProviders(map, names) ==
    IF names = {} THEN map
    ELSE LET name == CHOOSE x \in names : TRUE
         IN  RegisterProviders(
                 Register(map, Fn(name), provider_dependencies(name)),
                 names \ {name})

ProviderSetNames(provider_sets) ==
    UNION { ProviderSetProviders(provider_sets[j]) : j \in 1..Len(provider_sets) }

\* An __init__ that adds the local providers after its own entry.
InjectorProvidersSelfFirst(provider_sets, orders, local_providers, self) ==
    LET fromSets == FromProviderSets(<< >>, provider_sets, orders, 1)
        withSelf == Update(fromSets, "Injector" :> Lambda(self))
    IN  Update(withSelf, local_providers)

\* The providers dict Injector.__init__ builds for the new injector self.
InjectorProviders(provider_sets, orders, local_providers, self) ==
    LET fromSets == FromProviderSets(<< >>, provider_sets, orders, 1)
        withLocal == Update(fromSets, local_providers)
    IN  Update(withLocal, "Injector" :> Lambda(self))

\* Injector(app, provider_sets, local_providers): the new injector takes
\* the next index; tables are the providers dicts of the injectors there
\* are, as the caller leaves them.
NewInjector(tables, provider_sets, orders, local_providers) ==
    LET self == Len(providers) + 1
    IN  /\ dependency_map' =
               RegisterProviders(dependency_map, ProviderSetNames(provider_sets))
        /\ providers' = Append(tables,
               InjectorProviders(provider_sets, orders, local_providers, self))
        /\ currently_binding' = Append(currently_binding, {})
        /\ bound_funcs' = Append(bound_funcs, << >>)
        /\ UNCHANGED <<partials, stack, libvars>>

\* Application.make_injector(*provider_sets, local_providers=...)
MakeInjector(provider_sets, orders, local_providers) ==
    /\ stack = << >>
    /\ Len(providers) < MaxInjectors
    /\ NewInjector(providers, provider_sets, orders, local_providers)
    /\ call' = [NoCall EXCEPT !.op = "make_injector",
                              !.inj = Len(providers) + 1, !.out = "ok"]
    /\ origin' = Append(origin, [parent |-> 0, provider_sets |-> provider_sets,
                                 local_providers |-> local_providers])

\* new_providers of Injector.specialize: a copy of the parent's dict,
\* updated with the local_providers given.
SpecializeProviders(parent, local_providers) ==
    Update(providers[parent], local_providers)

\* A specialize that updates the parent's dict itself instead of a copy.
ParentProvidersAliased(parent, local_providers) ==
    Update(providers[parent], local_providers)

\* The parent's own dict after specialize: new_providers being a copy
\* (dict(self.providers)), the update does not reach it.
ParentProviders(parent, local_providers) == providers[parent]

\* Injector.specialize(*provider_sets, local_providers=...)
Specialize(parent, provider_sets, orders, local_providers) ==
    /\ stack = << >>
    /\ parent \in Injectors
    /\ Len(providers) < MaxInjectors
    /\ NewInjector([providers EXCEPT
                        ![parent] = ParentProviders(parent, local_providers)],
                   provider_sets, orders,
                   SpecializeProviders(parent, local_providers))
    /\ call' = [NoCall EXCEPT !.op = "specialize",
                              !.inj = Len(providers) + 1, !.out = "ok"]
    /\ origin' = Append(origin, [parent |-> parent,
                                 provider_sets |-> provider_sets,
                                 local_providers |-> local_providers])

\* ------------------------------------------------------- calling things
\* What calling callable c with positional arguments pos and keyword
\* arguments kw does.  A partial adds its keywords (the call's own win) and
\* calls what it wraps; a function returns iff it is given exactly its
\* parameters, and fails with TypeError otherwise.
RECURSIVE Invoke(_, _, _, _)
Invoke(heap, c, pos, kw) ==
    CASE c.k = "partial" ->
           Invoke(heap, heap[c.n].func, pos, Update(heap[c.n].kwargs, kw))
      [] c.k = "lambda" ->
           [ok |-> Len(pos) = 1 /\ DOMAIN kw = {}, c |-> c, pos |-> pos, kw |-> kw]
      [] OTHER ->
           [ok |-> Len(pos) = NPos(c.name) /\ DOMAIN kw = Params(c.name),
            c |-> c, pos |-> pos, kw |-> kw]

\* The value a successful call of a provider returns: the lambda of
\* injector n returns that injector; any other provider returns a value
\* of its own for the interface it was given.
ProviderValue(r) ==
    IF r.c.k = "lambda" THEN [v |-> "inj", c |-> r.c, i |-> "Injector"]
    ELSE [v |-> "ret", c |-> r.c, i |-> r.pos[1]]

\* A value the caller of a bound callable passes in itself.
ArgValue(s) == [v |-> "arg", c |-> NoCallable, i |-> s]

\* ------------------------------------------------------------ Injector.bind
\* A bind that looks up the spec of a bound method under the method.
LookupFuncSame(func) == func

\* "if isinstance(func, types.MethodType): lookup_func = func.im_func"
LookupFunc(func) == IF func.k = "meth" THEN Fn(func.name) ELSE func

\* "deps = self.app.dependency_map[lookup_func]", EMPTY_DEPS on KeyError.
DepsOf(lookup_func) ==
    IF lookup_func \in DOMAIN dependency_map THEN dependency_map[lookup_func]
    ELSE EMPTY_DEPS

\* A lookup that tries the type of the interface first.
FindProviderKindFirst(i, interface) ==
    IF InterfaceType(interface) \in DOMAIN providers[i]
    THEN providers[i][InterfaceType(interface)]
    ELSE IF interface \in DOMAIN providers[i] THEN providers[i][interface]
         ELSE NoCallable

\* The provider bind finds for an interface in injector i's table: the
\* entry of the interface itself, else the entry of its type, else none.
FindProvider(i, interface) ==
    IF interface \in DOMAIN providers[i] THEN providers[i][interface]
    ELSE IF InterfaceType(interface) \in DOMAIN providers[i]
         THEN providers[i][InterfaceType(interface)]
         ELSE NoCallable

\* The error bind raises on finding lookup_func in currently_binding.  The
\* message is built first, by ", ".join(self.currently_binding), and join
\* raises TypeError on an item that is not a string: the set holds callables
\* and, lookup_func being in it, is never empty.
CycleError(binding) ==
    IF \E c \in binding : TRUE THEN "TypeError" ELSE "DependencyCycleError"

\* An exception leaving bind: every activation is abandoned as it is (bind
\* has no handler and no finally), and the top-level call cl fails.
Raise(cl, err) ==
    /\ stack' = << >>
    /\ call' = [cl EXCEPT !.out = "error", !.err = err]

\* A provider called with the type of the interface asked for.
ProviderArgsType(fr) == <<InterfaceType(fr.interface)>>

\* The positional arguments of the call "provider(interface)" activation fr
\* makes at line 176.
ProviderArgs(fr) == <<fr.interface>>

\* The calls of providers made, after activation fr has called art, the
\* provider bind returned to it, at line 176.
Invoked(log, fr, art) ==
    LET made == [func |-> fr.func, arg_name |-> fr.arg_name, art |-> art,
                 pos |-> ProviderArgs(fr)]
    IN  IF made \in DOMAIN log THEN [log EXCEPT ![made] = @ + 1]
        ELSE (made :> 1) @@ log

\* bind returns art to its caller: the top-level caller, or the activation
\* rest[Len(rest)], which goes on with "kwargs[arg_name] = provider(interface)".
Return(cl, heap, art, rest) ==
    IF rest = << >>
    THEN /\ stack' = << >>
         /\ call' = [cl EXCEPT !.out = "ok", !.art = art]
    ELSE LET fr == rest[Len(rest)]
             r == Invoke(heap, art, ProviderArgs(fr), << >>)
             during == [cl EXCEPT !.invoked = Invoked(@, fr, art)]
         IN  IF r.ok
             THEN /\ stack' = [rest EXCEPT ![Len(rest)].kwargs =
                                   Update(@, fr.arg_name :> ProviderValue(r))]
                  /\ call' = during
             ELSE Raise(during, "TypeError")

\* The frame of a new activation of bind(func), after line 154.
NewFrame(func) ==
    [func |-> func, lookup_func |-> LookupFunc(func),
     deps |-> DepsOf(LookupFunc(func)), todo |-> DOMAIN DepsOf(LookupFunc(func)),
     kwargs |-> << >>, unprovided |-> << >>, arg_name |-> "", interface |-> ""]

\* A bind that never consults its memo.
IsBoundNever(i, func) == FALSE

\* The memo test of bind.
IsBound(i, func) == func \in DOMAIN bound_funcs[i]

\* A bind without the test for a cycle.
IsBindingNever(i, lookup_func) == FALSE

\* A bind that takes any bind in flight on the injector for a cycle.
IsBindingAny(i, lookup_func) == currently_binding[i] # {}

\* "if lookup_func in self.currently_binding"
IsBinding(i, lookup_func) == lookup_func \in currently_binding[i]

\* self.bind(func) on injector i, called from the activations in rest
\* during the top-level call cl: lines 130-154.
EnterBind(cl, i, func, rest) ==
    IF IsBound(i, func)
    THEN /\ Return([cl EXCEPT !.hit = (rest = << >>)],
                   partials, bound_funcs[i][func], rest)
         /\ UNCHANGED <<dependency_map, providers, currently_binding,
                        bound_funcs, partials>>
    ELSE IF IsBinding(i, LookupFunc(func))
    THEN /\ Raise(cl, CycleError(currently_binding[i]))
         /\ UNCHANGED <<dependency_map, providers, currently_binding,
                        bound_funcs, partials>>
    ELSE /\ currently_binding' =
               [currently_binding EXCEPT ![i] = @ \cup {LookupFunc(func)}]
         /\ stack' = Append(rest, NewFrame(func))
         /\ call' = cl
         /\ UNCHANGED <<dependency_map, providers, bound_funcs, partials>>

\* The callables the application binds itself: its function, any artifact
\* of an earlier bind that was left with unprovided parameters, and the
\* method bar of each instance of Foo, where bar is declared; so the
\* method baz, where the application has declared it in either way.
BindTargets ==
    {Fn("func")} \cup { c \in DOMAIN dependency_map : c.k = "partial" }
                \cup { Meth("bar", o) : o \in
                         IF Fn("bar") \in DOMAIN dependency_map
                         THEN FooInstances ELSE {} }
                \cup { Meth("baz", o) : o \in
                         IF \E c \in DOMAIN dependency_map : c.name = "baz"
                         THEN FooInstances ELSE {} }

\* injector.bind(func), called by the application.
BindCall(i, func) ==
    /\ stack = << >>
    /\ i \in Injectors
    /\ func \in BindTargets
    /\ Len(partials) < MaxPartials \/ IsBound(i, func)
    /\ EnterBind([NoCall EXCEPT !.op = "bind", !.inj = i, !.func = func,
                                !.out = "running",
                                !.entry = currently_binding[i]],
                 i, func, << >>)
    /\ UNCHANGED <<origin, libvars>>

\* One turn of "for arg_name, interface in deps.iteritems()" in the
\* innermost activation (lines 158-176, up to the recursive call): a dict
\* is visited in no particular order.
BindStep ==
    /\ stack # << >>
    /\ LET top == Len(stack)
           fr == stack[top]
           i == call.inj
       IN  \E arg_name \in fr.todo :
             LET interface == fr.deps[arg_name]
                 provider == FindProvider(i, interface)
             IN  IF provider = NoCallable
                 THEN /\ stack' = [stack EXCEPT
                             ![top].todo = @ \ {arg_name},
                             ![top].arg_name = arg_name,
                             ![top].interface = interface,
                             ![top].unprovided = Update(@, arg_name :> interface)]
                      /\ UNCHANGED <<dependency_map, providers,
                                     currently_binding, bound_funcs, partials,
                                     call>>
                 ELSE EnterBind(call, i, provider,
                          [stack EXCEPT ![top].todo = @ \ {arg_name},
                                        ![top].arg_name = arg_name,
                                        ![top].interface = interface])
    /\ UNCHANGED <<origin, libvars>>

\* A bind that declares the whole spec of the callable on its artifact.
DeclareAllDeps(map, injected, fr) ==
    IF DOMAIN fr.unprovided # {}
    THEN Register(map, injected, fr.deps)
    ELSE map

\* "if len(unprovided) > 0: self.app.dependencies(injected, **unprovided)"
DeclareUnprovided(map, injected, fr) ==
    IF DOMAIN fr.unprovided # {}
    THEN Register(map, injected, fr.unprovided)
    ELSE map

\* The end of the innermost activation, the loop being over (lines
\* 178-187): the partial is made, declared if it has unprovided
\* parameters, memoized and returned.
BindFinish ==
    /\ stack # << >>
    /\ LET top == Len(stack)
           fr == stack[top]
           i == call.inj
           injected == Partial(Len(partials) + 1)
           heap == Append(partials, [func |-> fr.func, kwargs |-> fr.kwargs])
       IN  /\ fr.todo = {}
           /\ currently_binding' =
                  [currently_binding EXCEPT ![i] = @ \ {fr.lookup_func}]
           /\ partials' = heap
           /\ dependency_map' = DeclareUnprovided(dependency_map, injected, fr)
           /\ bound_funcs' =
                  [bound_funcs EXCEPT ![i] = Update(@, fr.func :> injected)]
           /\ Return(call, heap, injected, SubSeq(stack, 1, top - 1))
           /\ UNCHANGED <<providers, origin, libvars>>

\* The keyword arguments the application calls a bound callable with.
CallKwargs == { << >>, "b" :> ArgValue("world") }

\* The application calls the artifact bind has just returned: art(**kw).
CallArtifact(art, kw) ==
    /\ stack = << >>
    /\ call.op = "bind" /\ call.out = "ok" /\ art = call.art
    /\ LET r == Invoke(partials, art, << >>, kw)
       IN  call' = [NoCall EXCEPT !.op = "call", !.inj = call.inj,
                        !.func = art,
                        !.out = IF r.ok THEN "ok" ELSE "error",
                        !.err = IF r.ok THEN "" ELSE "TypeError",
                        !.ret = r]
    /\ UNCHANGED <<dependency_map, providers, currently_binding, bound_funcs,
                   partials, stack, origin, libvars>>

Next ==
    \/ \E d \in Declarations : Declare(d[1], d[2])
    \/ \E args \in MakeInjectorArgs :
         \E os \in OrdersFor(args[1]) : MakeInjector(args[1], os, args[2])
    \/ \E parent \in Injectors, args \in SpecializeArgs :
         \E os \in OrdersFor(args[1]) : Specialize(parent, args[1], os, args[2])
    \/ \E i \in Injectors, func \in BindTargets : BindCall(i, func)
    \/ BindStep
    \/ BindFinish
    \/ \E kw \in CallKwargs : CallArtifact(call.art, kw)

Spec == Init /\ [][Next]_vars

\* An application that declares, makes injectors and binds.  bind is
\* synchronous code: once called it runs on, turn of the loop by turn,
\* until it returns or raises.
BindNext ==
    \/ \E d \in Declarations : Declare(d[1], d[2])
    \/ \E args \in MakeInjectorArgs :
         \E os \in OrdersFor(args[1]) : MakeInjector(args[1], os, args[2])
    \/ \E i \in Injectors, func \in BindTargets : BindCall(i, func)
    \/ BindStep
    \/ BindFinish

FairSpec ==
    Init /\ [][BindNext]_vars /\ WF_vars(BindStep) /\ WF_vars(BindFinish)

\* The declaring part of an application alone: its calls of
\* Application.dependencies and of the register functions these return.
AppNext ==
    \/ \E args \in DependenciesArgs, mapping \in DependenciesMappings :
         Dependencies(args, mapping)
    \/ \E callable \in DependenciesTargets : RegisterCall(callable)

AppSpec == Init /\ [][AppNext]_vars

\* An application that declares a method and binds it for its instances.
MethodNext ==
    \/ \E d \in MethodDeclarations : Declare(d[1], d[2])
    \/ \E args \in MakeInjectorArgs :
         \E os \in OrdersFor(args[1]) : MakeInjector(args[1], os, args[2])
    \/ \E i \in Injectors, func \in BindTargets : BindCall(i, func)
    \/ BindStep
    \/ BindFinish

MethodSpec == Init /\ [][MethodNext]_vars

\* An application that declares a method, on its function and on the
\* method of an instance, before and after it binds, and has the method of
\* another instance for a provider.
InstanceNext ==
    \/ \E d \in InstanceDeclarations : Dependencies(<<d[1]>>, d[2])
    \/ \E key \in DOMAIN dependency_map : Collect(key)
    \/ \E args \in MethodProviderArgs :
         \E os \in OrdersFor(args[1]) : MakeInjector(args[1], os, args[2])
    \/ \E i \in Injectors, o \in FooInstances : BindCall(i, Meth("baz", o))
    \/ BindStep
    \/ BindFinish

InstanceSpec == Init /\ [][InstanceNext]_vars

\* The definitions of provider-set classes.
ClassNext ==
    \E bases \in SUBSET (0..Len(classes)), dict \in ClassBodies :
        DefineClass(bases, dict)

ClassSpec == Init /\ [][ClassNext]_vars

\* The making of interface enumerations.
EnumNext == \E names \in NameLists : MakeInterfaceEnum(names)

EnumSpec == Init /\ [][EnumNext]_vars

\* An application that makes its injectors from provider sets and binds
\* its function on them.
InjectorNext ==
    \/ \E d \in InjectorDeclarations : Declare(d[1], d[2])
    \/ \E args \in ProviderSetArgs :
         \E os \in OrdersFor(args[1]) : MakeInjector(args[1], os, args[2])
    \/ \E parent \in Injectors, args \in SpecializeArgs :
         \E os \in OrdersFor(args[1]) : Specialize(parent, args[1], os, args[2])
    \/ \E i \in Injectors, func \in BindTargets : BindCall(i, func)
    \/ BindStep
    \/ BindFinish

InjectorSpec == Init /\ [][InjectorNext]_vars

\* ===================================================================
\* Properties
\* ===================================================================

\* The providers callable c depends on in injector i: those bind finds for
\* the interfaces of c's declared spec.
ProvidersFor(i, c) ==
    { FindProvider(i, DepsOf(LookupFunc(c))[a]) :
        a \in DOMAIN DepsOf(LookupFunc(c)) } \ {NoCallable}

\* The callables reached from those of S in at most k steps of ProvidersFor.
RECURSIVE ReachIn(_, _, _)
ReachIn(i, S, k) ==
    IF k = 0 THEN S
    ELSE ReachIn(i, S \cup UNION { ProvidersFor(i, c) : c \in S }, k - 1)

\* Every callable a bind of func on injector i can come to bind: there
\* are at most six callables in a dependency graph of the universe.
ReachableFrom(i, func) == ReachIn(i, {func}, 6)

\* A top-level bind has completed, one way or the other.
BindDone == stack = << >> /\ call.op = "bind" /\ call.out \in {"ok", "error"}

\* ------------------------------------------------------------------ C1
\* A step that is a top-level bind of a callable the injector has in its
\* memo returns the memoized artifact at once: no activation is pushed, no
\* partial is made, nothing of the injector changes.
C1_MemoStep ==
    ( /\ stack = << >>
      /\ call' # call
      /\ call'.op = "bind"
      /\ call'.func \in DOMAIN bound_funcs[call'.inj] )
    => /\ call'.out = "ok"
       /\ call'.art = bound_funcs[call'.inj][call'.func]
       /\ stack' = << >>
       /\ partials' = partials
       /\ bound_funcs' = bound_funcs
       /\ currently_binding' = currently_binding

\* No step changes or removes an entry of an injector's memo.
C1_MemoKept ==
    \A i \in Injectors : \A f \in DOMAIN bound_funcs[i] :
        /\ f \in DOMAIN bound_funcs'[i]
        /\ bound_funcs'[i][f] = bound_funcs[i][f]

\* C1: once bind(f) has returned artifact A on an injector, every later
\* bind(f) on that injector returns the identical A, without running the
\* resolution again.
C1_BindIsIdempotent == [][C1_MemoStep /\ C1_MemoKept]_vars

\* A bind answered from the memo.
C1_Witness ==
    /\ BindDone /\ call.out = "ok" /\ call.hit
    /\ call.art = bound_funcs[call.inj][call.func]

\* ------------------------------------------------------------------ C2
\* C2: when a bind call fails, every identity the call added to the
\* injector's currently_binding has been removed again as the error reaches
\* the caller: the set is what it was when the call began.
C2_FailedBindRestoresBinding ==
    (BindDone /\ call.out = "error")
    => currently_binding[call.inj] = call.entry

\* ------------------------------------------------------------------ C3
\* Providers p1 and p2 depend on each other in injector i.
MutualCycle(i, p1, p2) ==
    /\ p1 # p2
    /\ p2 \in ProvidersFor(i, p1)
    /\ p1 \in ProvidersFor(i, p2)

\* C3: a bind of a callable that reaches two providers depending on each
\* other fails, and with the DependencyCycleError.
C3_CycleRaisesDependencyCycleError ==
    ( /\ BindDone
      /\ \E p1, p2 \in ReachableFrom(call.inj, call.func) :
             MutualCycle(call.inj, p1, p2) )
    => call.out = "error" /\ call.err = "DependencyCycleError"

\* ------------------------------------------------------------------ C4
\* Injector i's table has an entry for the interface or for its type.
Provided(i, interface) ==
    \/ interface \in DOMAIN providers[i]
    \/ InterfaceType(interface) \in DOMAIN providers[i]

\* What provider p returns for the interface.
ValueFrom(p, interface) ==
    IF p.k = "lambda" THEN [v |-> "inj", c |-> p, i |-> "Injector"]
    ELSE [v |-> "ret", c |-> p, i |-> interface]

\* func is declared with {a: E1, b: E2} and injector i's table provides E1
\* itself, but neither E2 nor its type.
C4_Case(i) ==
    /\ DepsOf(Fn("func")) = Dict({<<"a", "E1">>, <<"b", "E2">>})
    /\ "E1" \in DOMAIN providers[i]
    /\ ~Provided(i, "E2")

\* C4: in that case bind(func) returns a partial of func with a pre-filled
\* by the value of E1's provider and b left open, and calling the artifact
\* with b=v calls func with that a and with b=v.
C4_PartialBinding ==
    /\ (BindDone /\ call.out = "ok" /\ call.func = Fn("func") /\ C4_Case(call.inj))
       => /\ partials[call.art.n].func = Fn("func")
          /\ partials[call.art.n].kwargs =
                 ("a" :> ValueFrom(providers[call.inj]["E1"], "E1"))
    /\ ( /\ stack = << >> /\ call.op = "call"
         /\ partials[call.func.n].func = Fn("func")
         /\ C4_Case(call.inj)
         /\ "b" \in DOMAIN call.ret.kw )
       => /\ call.ret.ok
          /\ call.ret.c = Fn("func")
          /\ call.ret.pos = << >>
          /\ call.ret.kw = ("a" :> ValueFrom(providers[call.inj]["E1"], "E1"))
                           @@ ("b" :> ArgValue("world"))

\* The partially bound func has been called with b = "world".
C4_Witness ==
    /\ stack = << >> /\ call.op = "call" /\ call.ret.ok
    /\ partials[call.func.n].func = Fn("func")
    /\ C4_Case(call.inj)
    /\ call.ret.kw["b"] = ArgValue("world")

\* ------------------------------------------------------------------ C5
\* The parameters partial n leaves open, with their interfaces: those of
\* the spec of what it wraps that it has no keyword for.
OpenSpec(n) ==
    LET decl == DepsOf(LookupFunc(partials[n].func))
    IN  [ name \in DOMAIN decl \ DOMAIN partials[n].kwargs |-> decl[name] ]

\* The registry holds, for every artifact, exactly its open parameters with
\* their original interfaces, and nothing for an artifact with none.
C5_ArtifactSpec ==
    \A n \in 1..Len(partials) :
        IF DOMAIN OpenSpec(n) = {}
        THEN Partial(n) \notin DOMAIN dependency_map
        ELSE /\ Partial(n) \in DOMAIN dependency_map
             /\ dependency_map[Partial(n)] = OpenSpec(n)

\* A completed bind of an artifact that had open parameters, on an injector
\* providing every interface of them.
C5_SecondPass ==
    /\ BindDone /\ call.out = "ok"
    /\ call.func.k = "partial"
    /\ call.func \in DOMAIN dependency_map
    /\ \A name \in DOMAIN dependency_map[call.func] :
           Provided(call.inj, dependency_map[call.func][name])

\* C5: an artifact left with unprovided parameters is declared with exactly
\* those, and binding it again where they are provided gives an artifact
\* with the first pass's values kept, the open parameters filled in by
\* their providers, and nothing left open.
C5_DeferredDependencies ==
    /\ C5_ArtifactSpec
    /\ C5_SecondPass =>
         LET first == Invoke(partials, call.func, << >>, << >>).kw
             full == Invoke(partials, call.art, << >>, << >>).kw
             open == dependency_map[call.func]
         IN  /\ DOMAIN full = DOMAIN first \cup DOMAIN open
             /\ \A name \in DOMAIN first : full[name] = first[name]
             /\ \A name \in DOMAIN open :
                    full[name] = ValueFrom(FindProvider(call.inj, open[name]),
                                           open[name])
             /\ call.art \notin DOMAIN dependency_map

\* func, bound with b open on one injector, has been bound fully on another.
C5_Witness ==
    /\ C5_SecondPass /\ ~call.hit
    /\ Invoke(partials, call.art, << >>, << >>).ok
    /\ Invoke(partials, call.art, << >>, << >>).c = Fn("func")

\* ------------------------------------------------------------------ C6
\* The artifact injector i's memo holds for callable f.
Artifact(i, f) == partials[bound_funcs[i][f].n]

\* No step changes the table of an injector there is, and a step of a call
\* on another injector (a bind on a child, the specialize making one)
\* changes neither its memo nor its currently_binding.
C6_Step ==
    \A i \in Injectors :
        /\ providers'[i] = providers[i]
        /\ call'.inj # i =>
             /\ bound_funcs'[i] = bound_funcs[i]
             /\ currently_binding'[i] = currently_binding[i]

\* What an injector has bound is resolved against its own table: the
\* parameters filled in are those whose interface that table provides.
C6_ResolvedByOwnTable ==
    \A i \in Injectors : \A f \in DOMAIN bound_funcs[i] :
        LET decl == DepsOf(LookupFunc(f))
        IN  DOMAIN Artifact(i, f).kwargs =
                { name \in DOMAIN decl : Provided(i, decl[name]) }

\* C6: specialize and the binds on the child leave the parent's table and
\* memo as they are, and each injector resolves a callable by its own table:
\* an interface only the overrides provide stays open in the parent and is
\* resolved in the child.
C6_SpecializeLeavesParent == []C6_ResolvedByOwnTable /\ [][C6_Step]_vars

\* func is bound in a parent, b open, and in its child, b resolved.
C6_Witness ==
    \E i, j \in Injectors :
        /\ origin[j].parent = i
        /\ Fn("func") \in DOMAIN bound_funcs[i]
        /\ Fn("func") \in DOMAIN bound_funcs[j]
        /\ DOMAIN Artifact(i, Fn("func")).kwargs = {"a"}
        /\ DOMAIN Artifact(j, Fn("func")).kwargs = {"a", "b"}

\* ------------------------------------------------------------------ C7
\* The keys the provider sets given to injector j's construction provide.
ProviderSetKeys(j) ==
    UNION { provider_interfaces(name) :
              name \in ProviderSetNames(origin[j].provider_sets) }

\* C7: the table of an injector made by specialize maps every key given as
\* an override, through local_providers or through a provider set, to the
\* override's provider, and every other key of the parent but Injector to
\* the parent's provider.
C7_OverridesReplaceParentEntries ==
    \A j \in Injectors :
        origin[j].parent # 0 =>
          LET local == origin[j].local_providers
              sets == origin[j].provider_sets
              parent == providers[origin[j].parent]
          IN  /\ \A key \in DOMAIN local : providers[j][key] = local[key]
              /\ \A key \in ProviderSetKeys(j) \ DOMAIN local :
                     /\ providers[j][key].k = "meth"
                     /\ \E x \in 1..Len(sets) : providers[j][key].n = sets[x]
                     /\ key \in provider_interfaces(providers[j][key].name)
              /\ \A key \in DOMAIN parent \ (DOMAIN local \cup ProviderSetKeys(j)
                                             \cup {"Injector"}) :
                     providers[j][key] = parent[key]

\* ------------------------------------------------------------------ C8
\* Injector i itself, as a value.
InjectorValue(i) == [v |-> "inj", c |-> Lambda(i), i |-> "Injector"]

\* C8: the Injector entry of every injector's table is the provider
\* returning that injector, and a parameter declared with the Injector type
\* is given the injector doing the bind, in what is bound and in what is
\* being bound.
C8_InjectorProvidesItself ==
    /\ \A i \in Injectors :
          /\ providers[i]["Injector"] = Lambda(i)
          /\ ProviderValue(Invoke(partials, providers[i]["Injector"],
                                  <<"Injector">>, << >>)) = InjectorValue(i)
    /\ \A i \in Injectors : \A f \in DOMAIN bound_funcs[i] :
          \A name \in DOMAIN Artifact(i, f).kwargs :
              DepsOf(LookupFunc(f))[name] = "Injector"
                  => Artifact(i, f).kwargs[name] = InjectorValue(i)
    /\ \A k \in 1..Len(stack) : \A name \in DOMAIN stack[k].kwargs :
          stack[k].deps[name] = "Injector"
              => stack[k].kwargs[name] = InjectorValue(call.inj)

\* A bind on an injector made by specialize has passed that injector.
C8_Witness ==
    \E j \in Injectors :
        /\ origin[j].parent # 0
        /\ \E f \in DOMAIN bound_funcs[j] :
             \E name \in DOMAIN Artifact(j, f).kwargs :
                 Artifact(j, f).kwargs[name] = InjectorValue(j)

\* ------------------------------------------------------------------ C9
\* C9: a parameter whose interface has an entry of its own in the table is
\* filled in by that entry's provider, also when the type of the interface
\* has an entry too; one whose interface has none, by the provider of the
\* type's entry, given the interface; and it is left open only when there
\* is neither.
C9_ExactThenKind ==
    \A i \in Injectors : \A f \in DOMAIN bound_funcs[i] :
        LET decl == DepsOf(LookupFunc(f))
            kwargs == Artifact(i, f).kwargs
        IN  \A name \in DOMAIN decl :
              LET x == decl[name]
              IN  IF x \in DOMAIN providers[i]
                  THEN /\ name \in DOMAIN kwargs
                       /\ kwargs[name] = ValueFrom(providers[i][x], x)
                  ELSE IF InterfaceType(x) \in DOMAIN providers[i]
                  THEN /\ name \in DOMAIN kwargs
                       /\ kwargs[name] =
                              ValueFrom(providers[i][InterfaceType(x)], x)
                  ELSE name \notin DOMAIN kwargs

\* func is bound where E1 has its own entry and its type another, and E2
\* only the type's.
C9_Witness ==
    \E i \in Injectors :
        /\ Fn("func") \in DOMAIN bound_funcs[i]
        /\ {"E1", "TE"} \subseteq DOMAIN providers[i]
        /\ "E2" \notin DOMAIN providers[i]
        /\ providers[i]["E1"] # providers[i]["TE"]
        /\ DOMAIN Artifact(i, Fn("func")).kwargs = {"a", "b"}

\* ----------------------------------------------------------------- C10
\* The spec declared for provider p names exactly the keyword parameters p
\* takes: it can be called once they are all bound.
DeclaredInFull(p) ==
    p.k \in {"fn", "meth"} => DOMAIN DepsOf(LookupFunc(p)) = Params(p.name)

\* No callable reached from func in injector i depends on itself.
Acyclic(i, func) ==
    \A c \in ReachableFrom(i, func) :
        LookupFunc(c) \notin
            { LookupFunc(q) : q \in ReachIn(i, ProvidersFor(i, c), 6) }

\* Nothing stands in the way of bind(func) on injector i but, possibly,
\* interfaces without a provider.
OnlyUnprovided(i, func) ==
    /\ call.entry = {}
    /\ Acyclic(i, func)
    /\ \A p \in ReachableFrom(i, func) \ {func} : DeclaredInFull(p)

\* C10: a bind completes without error whenever the only obstacle is that
\* an interface declared by the callable, or by a provider reached from it,
\* has no provider.
C10_UnprovidedNeverFailsBind ==
    (BindDone /\ OnlyUnprovided(call.inj, call.func)) => call.out = "ok"

\* ----------------------------------------------------------------- C11
\* C11: a call of dependencies with one target registers the mapping for
\* the target and returns the target; a call with none returns a
\* registration function, which registers the mapping for the callable it
\* is applied to and returns that callable.
C11_DeclareReturnsTarget ==
    /\ (call.op = "dependencies" /\ Len(call.args) = 1)
         => /\ call.out = "ok"
            /\ call.args[1] \in DOMAIN dependency_map
            /\ dependency_map[call.args[1]] = call.mapping
            /\ call.value = call.args[1]
    /\ (call.op = "dependencies" /\ Len(call.args) = 0)
         => call.out = "ok" /\ call.value = RegisterClosure
    /\ call.op = "register"
         => /\ call.out = "ok"
            /\ call.func \in DOMAIN dependency_map
            /\ dependency_map[call.func] = call.mapping
            /\ call.value = call.func

\* ----------------------------------------------------------------- C12
\* The bound methods o.bar injector i has in its memo.
BoundMethods(i) ==
    { Meth("bar", o) : o \in FooInstances } \cap DOMAIN bound_funcs[i]

\* The artifact of o.bar wraps o.bar itself, with the parameters filled in
\* that the spec declared for the function bar names and the table
\* provides; the artifacts of two instances are two.
C12_OwnArtifacts ==
    \A i \in Injectors :
        /\ \A m \in BoundMethods(i) :
              LET decl == DepsOf(Fn("bar"))
              IN  /\ Artifact(i, m).func = m
                  /\ DOMAIN Artifact(i, m).kwargs =
                         { name \in DOMAIN decl : Provided(i, decl[name]) }
                  /\ \A name \in DOMAIN Artifact(i, m).kwargs :
                         Artifact(i, m).kwargs[name] =
                             ValueFrom(FindProvider(i, decl[name]), decl[name])
        /\ \A m1, m2 \in BoundMethods(i) :
              m1 # m2 => bound_funcs[i][m1] # bound_funcs[i][m2]

\* A bind of o.bar on an injector that has bound it returns the artifact
\* of the first bind, and the memo keeps what it holds.
C12_Step ==
    /\ ( /\ stack = << >>
         /\ call' # call
         /\ call'.op = "bind"
         /\ call'.func \in BoundMethods(call'.inj) )
       => /\ call'.out = "ok"
          /\ call'.art = bound_funcs[call'.inj][call'.func]
          /\ partials[call'.art.n].func = call'.func
    /\ \A i \in Injectors : \A m \in BoundMethods(i) :
          bound_funcs'[i][m] = bound_funcs[i][m]

\* C12: bind(o1.bar) and bind(o2.bar) on one injector are both resolved by
\* the spec declared for the function bar and give two artifacts, each
\* wrapping the method of its own instance, and a repeated bind(o1.bar)
\* returns the artifact of the first.
C12_MethodsBoundPerInstance == []C12_OwnArtifacts /\ [][C12_Step]_vars

\* The method is bound for both instances, its parameter filled in, and
\* the bind of the first instance has been repeated.
C12_Witness ==
    /\ BindDone /\ call.hit /\ call.func = Meth("bar", 1)
    /\ BoundMethods(call.inj) = { Meth("bar", o) : o \in FooInstances }
    /\ \A m \in BoundMethods(call.inj) :
          DOMAIN Artifact(call.inj, m).kwargs = {"a"}

\* ----------------------------------------------------------------- C13
\* C13: a call of dependencies with more than one target fails with
\* TypeError, and the registry is after it what it was before.
C13_Step ==
    (call'.op = "dependencies" /\ Len(call'.args) > 1)
    => /\ call'.out = "error"
       /\ call'.err = "TypeError"
       /\ dependency_map' = dependency_map

C13_InvalidDeclareRegistersNothing == [][C13_Step]_vars

\* A call with two targets has failed on a registry with entries, neither
\* target having the call's mapping.
C13_Witness ==
    /\ call.op = "dependencies" /\ Len(call.args) = 2
    /\ call.err = "TypeError"
    /\ DOMAIN dependency_map # {}
    /\ \A t \in DOMAIN dependency_map : dependency_map[t] # call.mapping

\* ----------------------------------------------------------------- C14
\* The table of injector j has exactly the keys its construction was given
\* (those of the provider sets, those of local_providers) and Injector.
C14_KeySet(j) ==
    DOMAIN providers[j] =
        ProviderSetKeys(j) \cup DOMAIN origin[j].local_providers
                           \cup {"Injector"}

\* Injector j's entry for key is a function of a provider set given to its
\* construction that declares key, bound to an instance given.
C14_BoundRecord(j, key) ==
    /\ providers[j][key].k = "meth"
    /\ \E x \in 1..Len(origin[j].provider_sets) :
          providers[j][key].n = origin[j].provider_sets[x]
    /\ providers[j][key].name \in ProviderSetNames(origin[j].provider_sets)
    /\ key \in provider_interfaces(providers[j][key].name)

\* The registry holds the dependency spec of every function of the
\* provider sets given to injector j, under the function itself.
C14_RecordsDeclared(j) ==
    \A name \in ProviderSetNames(origin[j].provider_sets) :
        /\ Fn(name) \in DOMAIN dependency_map
        /\ dependency_map[Fn(name)] = provider_dependencies(name)

\* C14 as claimed: the table of an injector built by make_injector has
\* exactly those keys, every key of the provider sets maps to the function
\* of a record bound to its provider-set instance, and the records'
\* dependency specs are declared under their functions.
C14_MakeInjectorTable ==
    \A j \in Injectors :
        origin[j].parent = 0 =>
            /\ C14_KeySet(j)
            /\ \A key \in ProviderSetKeys(j) : C14_BoundRecord(j, key)
            /\ C14_RecordsDeclared(j)

\* C14, amended: as claimed for the keys of the provider sets that
\* local_providers does not give too (Injector aside); a key of
\* local_providers maps to the provider given there, and Injector to the
\* injector's own provider.
C14_MakeInjectorTableLocalFirst ==
    \A j \in Injectors :
        origin[j].parent = 0 =>
            LET local == origin[j].local_providers
            IN  /\ C14_KeySet(j)
                /\ \A key \in ProviderSetKeys(j) \ (DOMAIN local \cup {"Injector"}) :
                       C14_BoundRecord(j, key)
                /\ \A key \in DOMAIN local \ {"Injector"} :
                       providers[j][key] = local[key]
                /\ providers[j]["Injector"] = Lambda(j)
                /\ C14_RecordsDeclared(j)

\* make_injector was given two provider sets and local providers for a key
\* of theirs and for others, after the application had declared a spec of
\* its own for one of the records.
C14_Witness ==
    \E j \in Injectors :
        /\ origin[j].parent = 0
        /\ Len(origin[j].provider_sets) = 2
        /\ ProviderSetKeys(j) \cap DOMAIN origin[j].local_providers # {}
        /\ ProviderSetKeys(j) \ DOMAIN origin[j].local_providers # {}
        /\ DOMAIN origin[j].local_providers \ ProviderSetKeys(j) # {}
        /\ Fn("func") \in DOMAIN dependency_map

\* ----------------------------------------------------------------- C15
\* The classes class c derives from, directly or not (object aside).
RECURSIVE Ancestors(_)
Ancestors(c) ==
    LET direct == classes[c].bases \ {0}
    IN  direct \cup UNION { Ancestors(b) : b \in direct }

\* The collection of every class is the union of those of its bases and
\* the decorated functions of its own body, which makes it the decorated
\* functions of its body and of the bodies of all its ancestors.
C15_Union ==
    \A c \in 1..Len(classes) :
        /\ classes[c].providers =
               UNION { classes[b].providers : b \in classes[c].bases \ {0} }
               \cup { m \in classes[c].dict : m.k = "fn" /\ m.name \in Annotated }
        /\ classes[c].providers =
               UNION { { m \in classes[a].dict : m.k = "fn" /\ m.name \in Annotated } :
                       a \in Ancestors(c) \cup {c} }

\* Defining a class changes the collection of no class there is.
C15_Step ==
    \A c \in 1..Len(classes) : classes'[c].providers = classes[c].providers

\* C15: the collection of a derived provider-set class is the union of its
\* bases' collections and its own decorated functions, each once, and
\* defining the class leaves the collections of its bases as they were.
C15_AdditiveInheritance == []C15_Union /\ [][C15_Step]_vars

\* A class with two provider-set bases that share a function, one of them
\* having another, which adds one itself and has members in its body that
\* are no providers.
C15_Witness ==
    \E c \in 1..Len(classes) : \E a, b \in classes[c].bases \ {0} :
        /\ classes[a].providers \cap classes[b].providers # {}
        /\ classes[b].providers \ classes[a].providers # {}
        /\ classes[c].providers \ (classes[a].providers \cup classes[b].providers) # {}
        /\ classes[c].dict \ classes[c].providers # {}

\* ----------------------------------------------------------------- C16
\* kind.<name>, and the members of the kind: the instances its attributes
\* hold.
Member(e, name) == enums[e].attrs[name]
Members(e) == { Member(e, name) : name \in DOMAIN enums[e].attrs }

\* The different names among those given for kind e.
GivenNames(e) == { enums[e].names[k] : k \in 1..Len(enums[e].names) }

\* Every member of a kind is of that kind, and the members of two kinds
\* are different instances, of different types.
C16_OfItsKind ==
    /\ \A e \in 1..Len(enums) : \A m \in Members(e) : objects[m].type = e
    /\ \A e1, e2 \in 1..Len(enums) :
          e1 # e2 => \A m1 \in Members(e1), m2 \in Members(e2) :
                        m1 # m2 /\ objects[m1].type # objects[m2].type

C16_Step ==
    /\ \A e \in 1..Len(enums) : enums'[e] = enums[e]
    /\ \A m \in 1..Len(objects) : objects'[m] = objects[m]

\* A kind has exactly one member for each different name given, the
\* instance made for the last occurrence of the name, which carries that
\* name.
C16_ByName ==
    /\ \A e \in 1..Len(enums) :
          /\ Cardinality(Members(e)) = Cardinality(GivenNames(e))
          /\ DOMAIN enums[e].attrs = GivenNames(e)
          /\ \A name \in GivenNames(e) :
                /\ objects[Member(e, name)].name = name
                /\ \A m \in 1..Len(objects) :
                      (objects[m].type = e /\ objects[m].name = name)
                          => m <= Member(e, name)
    /\ C16_OfItsKind

RECURSIVE CallsIn(_, _)
CallsIn(log, made) ==
    IF made = {} THEN 0
    ELSE LET e == CHOOSE x \in made : TRUE
         IN  log[e] + CallsIn(log, made \ {e})

Calls(log, func, arg_name) ==
    CallsIn(log, { e \in DOMAIN log : e.func = func /\ e.arg_name = arg_name })

\* No call of a provider is made twice during one bind.
C17_Once == \A e \in DOMAIN call.invoked : call.invoked[e] = 1

\* An activation of bind that ends by making its artifact has called a
\* provider once for each parameter of the spec the table provides, and
\* none for another; a top-level bind of a callable in the memo ends at
\* once and has called none; and a call of a provider is only ever made by
\* an activation in flight, which a bind answered from the memo is not.
C17_Step ==
    /\ Len(partials') = Len(partials) + 1
         => LET fr == stack[Len(stack)]
            IN  \A a \in DOMAIN fr.deps :
                    Calls(call.invoked, fr.func, a) =
                        IF Provided(call.inj, fr.deps[a]) THEN 1 ELSE 0
    /\ ( /\ stack = << >>
         /\ call' # call
         /\ call'.op = "bind"
         /\ call'.func \in DOMAIN bound_funcs[call'.inj] )
       => /\ stack' = << >>
          /\ call'.out = "ok"
          /\ call'.invoked = << >>
    /\ \A e \in DOMAIN call'.invoked :
          (e \notin DOMAIN call.invoked \/ call'.invoked[e] # call.invoked[e])
              => \E k \in 1..Len(stack) :
                     /\ stack[k].func = e.func
                     /\ e.arg_name \in DOMAIN stack[k].deps
                     /\ e.func \notin DOMAIN bound_funcs[call.inj]

\* C17: bind caches the callables it has bound, never what providers
\* return: each bind not answered from the memo calls the bound provider
\* once for every declared parameter that has one, so a provider is called
\* again for each further callable depending on its interface, and a bind
\* answered from the memo calls none.
C17_ProvidersCalledPerBind == []C17_Once /\ [][C17_Step]_vars

\* o2.bar has been bound after o1.bar on the same injector, both filled
\* in from the provider of E1: the bound provider, in the memo since the
\* first bind, has been called again during the second.
C17_Witness ==
    /\ BindDone /\ call.out = "ok" /\ ~call.hit
    /\ call.func = Meth("bar", 2)
    /\ Meth("bar", 1) \in DOMAIN bound_funcs[call.inj]
    /\ DepsOf(Fn("bar")) = Dict({<<"a", "E1">>})
    /\ "a" \in DOMAIN Artifact(call.inj, Meth("bar", 1)).kwargs
    /\ Len(partials) = call.art.n
    /\ partials[call.art.n - 1].func = Meth("bar", 1)
    /\ \E e \in DOMAIN call.invoked :
          /\ e.func = call.func /\ e.pos = <<"E1">>
          /\ e.art = bound_funcs[call.inj][FindProvider(call.inj, "E1")]
          /\ e.art.n < call.art.n - 1

\* ----------------------------------------------------------------- C18
\* The steps of an injector's operations: a construction, by make_injector
\* or specialize, and the steps of a bind.
C18_Construction == Len(providers') = Len(providers) + 1
C18_Binding ==
    stack # << >> \/ stack' # << >> \/ (call'.op = "bind" /\ call' # call)

\* The step leaves the registry's entries as they are, those of the
\* callables in S aside, and adds entries for callables in S only.
C18_Kept(S) ==
    /\ \A c \in DOMAIN dependency_map \ S :
          c \in DOMAIN dependency_map' /\ dependency_map'[c] = dependency_map[c]
    /\ DOMAIN dependency_map' \ DOMAIN dependency_map \subseteq S

\* A step of a bind changes nothing in the registry, or it is the end of
\* an activation with unprovided parameters and adds the entry of the
\* artifact made, which holds them.
C18_BindAddsArtifact ==
    \/ dependency_map' = dependency_map
    \/ /\ Len(partials') = Len(partials) + 1
       /\ C18_Kept({Partial(Len(partials'))})
       /\ Partial(Len(partials')) \in DOMAIN dependency_map'
       /\ dependency_map'[Partial(Len(partials'))] =
              stack[Len(stack)].unprovided
       /\ DOMAIN stack[Len(stack)].unprovided # {}

\* C18 as claimed: no construction of an injector and no step of a bind
\* changes the registry, but for a bind adding the entry of an artifact
\* with unprovided parameters.
C18_InjectorLeavesRegistry ==
    [][ /\ C18_Construction => dependency_map' = dependency_map
        /\ C18_Binding => C18_BindAddsArtifact ]_vars

\* The functions of the provider sets given to the construction the step is.
C18_Records ==
    ProviderSetNames(origin'[Len(origin')].provider_sets)

\* C18, amended: the construction of an injector declares, for every
\* function of the provider sets it is given, the function's
\* provider_dependencies, new or in place of what was declared for that
\* function; beside that, and a bind adding the entry of an artifact with
\* unprovided parameters, no operation of an injector changes the registry.
C18_InjectorDeclaresRecordsOnly ==
    [][ /\ C18_Construction =>
              /\ C18_Kept({ Fn(name) : name \in C18_Records })
              /\ \A name \in C18_Records :
                    /\ Fn(name) \in DOMAIN dependency_map'
                    /\ dependency_map'[Fn(name)] = provider_dependencies(name)
        /\ C18_Binding => C18_BindAddsArtifact ]_vars

\* The registry holds the application's declaration of func, the spec of a
\* provider-set function where the application had declared another, and
\* the entry of an artifact of a bind.
C18_Witness ==
    /\ Fn("func") \in DOMAIN dependency_map
    /\ Fn("get_impl1") \in DOMAIN dependency_map
    /\ dependency_map[Fn("get_impl1")] = provider_dependencies("get_impl1")
    /\ dependency_map[Fn("get_impl1")] # Dict({<<"inj", "IX">>})
    /\ \E n \in 1..Len(partials) :
          /\ Partial(n) \in DOMAIN dependency_map
          /\ partials[n].func = Fn("func")

\* ----------------------------------------------------------------- C19
\* The underlying callables of the dependency graph of the bind in flight:
\* those of what it binds and of every provider reached from it.
Underlying(i, func) == { LookupFunc(c) : c \in ReachableFrom(i, func) }

\* The activations in flight bind callables with different underlying
\* callables, all of the graph: the recursion is no deeper than the number
\* of these.
C19_Depth ==
    /\ \A k1, k2 \in 1..Len(stack) :
          k1 # k2 => stack[k1].lookup_func # stack[k2].lookup_func
    /\ stack # << >> =>
          /\ \A k \in 1..Len(stack) :
                stack[k].lookup_func \in Underlying(call.inj, call.func)
          /\ Len(stack) <= Cardinality(Underlying(call.inj, call.func))

\* A bind is running, and a bind has returned or raised.
C19_Running == call.op = "bind" /\ call.out = "running"
C19_Ended == stack = << >> /\ call.out \in {"ok", "error"}

\* C19: every bind ends, returning an artifact or raising an error, and
\* its recursion is never deeper than the number of different underlying
\* callables, a callable that is being bound being refused.
C19_BindTerminates == []C19_Depth /\ (C19_Running ~> C19_Ended)

\* A bind over two providers that depend on each other has ended, after a
\* recursion three deep, with an error.
C19_Witness ==
    /\ BindDone /\ call.out = "error"
    /\ \E p1, p2 \in ReachableFrom(call.inj, call.func) :
          MutualCycle(call.inj, p1, p2)
    /\ Cardinality(currently_binding[call.inj]) = 3

\* ----------------------------------------------------------------- C20
\* The provider the bind in flight finds for the interface, and the
\* artifact the injector's memo holds for it.
C20_Provider(interface) == FindProvider(call.inj, interface)
C20_Bound(interface) == bound_funcs[call.inj][C20_Provider(interface)]

\* What calling the bound provider with the interface alone returns.
C20_Value(interface) ==
    ProviderValue(Invoke(partials, C20_Bound(interface), <<interface>>, << >>))

\* The call of a provider that fills parameter arg_name of func, whose
\* spec asks for the interface there.
C20_Call(func, arg_name, interface) ==
    [func |-> func, arg_name |-> arg_name, art |-> C20_Bound(interface),
     pos |-> <<interface>>]

\* Every call of a provider made during a bind is for a declared parameter
\* of the callable being bound that has a provider, is a call of the
\* artifact this injector's bind made of that provider, and passes the
\* interface declared for the parameter and nothing else.
C20_Invocations ==
    call.op = "bind" =>
      \A e \in DOMAIN call.invoked :
        LET deps == DepsOf(LookupFunc(e.func))
        IN  /\ e.arg_name \in DOMAIN deps
            /\ C20_Provider(deps[e.arg_name]) # NoCallable
            /\ C20_Provider(deps[e.arg_name]) \in DOMAIN bound_funcs[call.inj]
            /\ partials[e.art.n].func = C20_Provider(deps[e.arg_name])
            /\ e = C20_Call(e.func, e.arg_name, deps[e.arg_name])

\* The keywords kwargs collected for func, whose spec is deps: each is a
\* declared parameter with a provider, and holds what the call of the
\* bound provider with the parameter's interface returned.
C20_Filled(func, deps, kwargs) ==
    \A a \in DOMAIN kwargs :
       /\ a \in DOMAIN deps
       /\ C20_Call(func, a, deps[a]) \in DOMAIN call.invoked
       /\ kwargs[a] = C20_Value(deps[a])

\* The keywords of every activation in flight, and those of the artifact
\* of a bind that has returned, which has one for each declared parameter
\* with a provider.
C20_Stored ==
    /\ \A k \in 1..Len(stack) :
          C20_Filled(stack[k].func, stack[k].deps, stack[k].kwargs)
    /\ (BindDone /\ call.out = "ok" /\ ~call.hit) =>
          LET deps == DepsOf(LookupFunc(call.func))
              kwargs == partials[call.art.n].kwargs
          IN  /\ C20_Filled(call.func, deps, kwargs)
              /\ DOMAIN kwargs =
                   { a \in DOMAIN deps : C20_Provider(deps[a]) # NoCallable }

\* C20: for each declared parameter with a provider, bind binds the
\* provider on the same injector, calls the bound provider with the
\* interface asked for as its only positional argument (the member, also
\* where the provider is the entry of the member's type), and stores the
\* value returned under the parameter's name.
C20_ProviderCalledWithInterface == C20_Invocations /\ C20_Stored

\* A bind has returned an artifact with a keyword whose provider was found
\* under the type of the member asked for, and was bound with a dependency
\* of its own resolved before it was called with the member.
C20_Witness ==
    /\ BindDone /\ call.out = "ok" /\ ~call.hit
    /\ \E e \in DOMAIN call.invoked :
          LET interface == DepsOf(LookupFunc(e.func))[e.arg_name]
          IN  /\ e.func = call.func
              /\ interface \notin DOMAIN providers[call.inj]
              /\ InterfaceType(interface) \in DOMAIN providers[call.inj]
              /\ DOMAIN partials[e.art.n].kwargs # {}
              /\ e.pos = <<interface>>
              /\ e.arg_name \in DOMAIN partials[call.art.n].kwargs
              /\ partials[call.art.n].kwargs[e.arg_name].i = interface

\* ----------------------------------------------------------------- C21
\* C21: a spec is stored and looked up under the underlying function of
\* the callable: the registry has no entry under a method of an instance,
\* a declaration whose target is such a method leaves its mapping under
\* the method's function, and a bind of the method, on any instance, has
\* the mapping declared that way for its spec.
C21_StoredUnderUnderlying ==
    /\ \A c \in DOMAIN dependency_map : LookupFunc(c) = c
    /\ (call.op = "dependencies" /\ call.out = "ok" /\ Len(call.args) = 1)
         => /\ LookupFunc(call.args[1]) \in DOMAIN dependency_map
            /\ dependency_map[LookupFunc(call.args[1])] = call.mapping
    /\ \A k \in 1..Len(stack) : \A c \in DOMAIN dependency_map :
          ( /\ LookupFunc(c) = stack[k].lookup_func
            /\ stack[k].lookup_func \notin DOMAIN dependency_map )
          => stack[k].deps = dependency_map[c]

\* ----------------------------------------------------------------- C22
\* The underlying callables of the activations of bind in flight.
C22_OnStack == { stack[k].lookup_func : k \in 1..Len(stack) }

\* C22: currently_binding is transient: the set of an injector on which no
\* bind is in flight is empty, and during a bind the injector's set holds
\* exactly the underlying callables of the activations in flight.
C22_TransientBinding ==
    \A i \in Injectors :
       IF stack # << >> /\ i = call.inj
       THEN currently_binding[i] = C22_OnStack
       ELSE currently_binding[i] = {}

\* ----------------------------------------------------------------- C23
\* Callable c depends on itself in injector i, by the specs declared and
\* the providers of the table.
C23_OnCycle(i, c) == c \in ReachIn(i, ProvidersFor(i, c), 6)

\* The graph of the bind in flight has a cycle among its callables, one
\* that stands where the innermost activation is: a provider of the
\* callable it binds that has the underlying function of an activation in
\* flight and depends on itself (each instance's method being a callable
\* of its own).
C23_RealCycle ==
    /\ stack # << >>
    /\ \E c \in ProvidersFor(call.inj, stack[Len(stack)].func) :
          /\ c \in ReachableFrom(call.inj, call.func)
          /\ \E k \in 1..Len(stack) : stack[k].lookup_func = LookupFunc(c)
          /\ C23_OnCycle(call.inj, c)

\* The step is a bind raising from its test for a cycle (line 143): a bind
\* fails, and not in calling a provider, which is the one other place it
\* fails at.
C23_CycleRaised ==
    /\ call' # call
    /\ call'.op = "bind" /\ call'.out = "error"
    /\ call'.invoked =
          IF call.op = "bind" /\ call.out = "running" THEN call.invoked
          ELSE << >>

\* Where the injector has had no failed bind (its set was empty as the
\* call began), the test raises only at a real cycle.
C23_Step ==
    (C23_CycleRaised /\ call'.entry = {}) => C23_RealCycle

\* C23: on an injector with no earlier failed bind, bind raises from its
\* test for a cycle only if the graph of what it binds has a cycle among
\* its callables; a method of one instance whose provider is the same
\* method of another instance is refused only where that other method
\* depends on itself.
C23_NoFalseCycle == [][C23_Step]_vars

\* A bind of the method of one instance, whose parameter's provider is the
\* same method of another instance, has been refused for a cycle on an
\* injector without an earlier failed bind: the provider depends on itself.
C23_Witness ==
    /\ BindDone /\ call.out = "error" /\ call.entry = {}
    /\ call.invoked = << >>
    /\ call.func = Meth("baz", 1)
    /\ ProvidersFor(call.inj, call.func) = {Meth("baz", 2)}
    /\ C23_OnCycle(call.inj, Meth("baz", 2))

====
